---- MODULE Spec2Model ----
(***************************************************************************)
(* A model of the vercel_blob Go client: one Client value, the operations  *)
(* List, Put (single-shot and multipart), Head, Delete, Copy and Download, *)
(* the authorization header, the error mapper and the HTTP requests each   *)
(* call hands to httpClient.Do, with the server's answers chosen freely.   *)
(* Spec runs one call after another, ConcSpec runs two Puts side by side   *)
(* on the one Client, and TokenSpec runs GenerateClientToken.              *)
(***************************************************************************)
EXTENDS Integers, Sequences, FiniteSets, TLC

(***************************************************************************)
(* Program constants and the bounds of the model.                          *)
(***************************************************************************)

\* MultipartThreshold = 5 * 1024 * 1024: the single-shot limit and the chunk size.
MultipartThreshold == 5 * 1024 * 1024

\* The largest body has MaxChunks full chunks and one byte more.
MaxChunks == 2

\* http.StatusOK, http.StatusPartialContent, http.StatusNotFound
StatusOK == 200
StatusPartialContent == 206
StatusNotFound == 404

\* A header that is not set, an empty string, a nil pointer or a nil slice.
None == <<>>

\* A header or field that is set to v.
Some(v) == <<v>>

(***************************************************************************)
(* strconv.Itoa / strconv.FormatUint(_, 10) / fmt's %d: the decimal digits *)
(* of a natural number, most significant first.                            *)
(***************************************************************************)
RECURSIVE Itoa(_)
Itoa(n) == IF n < 10 THEN <<n>> ELSE Itoa(n \div 10) \o <<n % 10>>

\* The number a digit string denotes (what the server reads back).
RECURSIVE Atoi(_)
Atoi(d) == IF Len(d) = 0 THEN 0 ELSE 10 * Atoi(SubSeq(d, 1, Len(d) - 1)) + d[Len(d)]

(***************************************************************************)
(* Errors (error.go).  An error value is a record: type "Error" is the     *)
(* package's Error struct with its Code and Msg; the other types are the   *)
(* errors of encoding/json, net/http and io that the client passes on.     *)
(***************************************************************************)
NoError == [type |-> "nil", code |-> "", msg |-> None]

ErrNotAuthenticated ==
    [type |-> "Error", code |-> "not_authenticated", msg |-> <<"No authentication token">>]

ErrBadRequest(m) ==
    [type |-> "Error", code |-> "bad_request", msg |-> <<"Invalid request: ", m>>]

ErrForbidden == [type |-> "Error", code |-> "forbidden", msg |-> <<"Access denied">>]

ErrStoreNotFound ==
    [type |-> "Error", code |-> "store_not_found", msg |-> <<"The requested store does not exist">>]

ErrStoreSuspended ==
    [type |-> "Error", code |-> "store_suspended", msg |-> <<"The requested store has been suspended">>]

ErrBlobNotFound ==
    [type |-> "Error", code |-> "not_found", msg |-> <<"The requested blob does not exist">>]

NewUnknownError(statusCode, message) ==
    [type |-> "Error", code |-> "unknown_error",
     msg |-> <<"Unknown error (", Itoa(statusCode), "): ", message>>]

NewInvalidInputError(field) ==
    [type |-> "Error", code |-> "invalid_input", msg |-> <<field, " is required">>]

\* The error json.Decoder.Decode returns: io.EOF on an empty body, a syntax
\* error on a body that is no JSON value of the wanted shape, and the body's
\* own read error when the connection breaks while it is read.
JSONError(why) == [type |-> "json", code |-> "", msg |-> <<why>>]

\* The error httpClient.Do returns when no response arrives.
TransportError(why) == [type |-> "transport", code |-> "", msg |-> <<why>>]

\* The error of a failed Read of the request body or of the response body.
ReadError(why) == [type |-> "read", code |-> "", msg |-> <<why>>]

\* context.Canceled, as Do returns it (wrapped in a *url.Error) and as a Read of
\* the response body returns it once the context of the request is cancelled.
ContextCanceled == [type |-> "context", code |-> "", msg |-> <<"context canceled">>]

\* http.StatusText
StatusText(s) ==
    CASE s = 200 -> "OK"
      [] s = 206 -> "Partial Content"
      [] s = 400 -> "Bad Request"
      [] s = 403 -> "Forbidden"
      [] s = 404 -> "Not Found"
      [] s = 500 -> "Internal Server Error"
      [] s = 503 -> "Service Unavailable"
      [] OTHER -> ""

(***************************************************************************)
(* The state.                                                              *)
(***************************************************************************)
VARIABLES
    client,       \* the Client struct: tokenProvider, baseURL, apiVersion
    environ,      \* the process environment: BLOB_READ_WRITE_TOKEN
    call,         \* the operation being run or last run, with its arguments
    pc,           \* "ready": no call is running; "mpu_upload": putMultipart is in
                  \* its read loop; "mpu_complete": the loop is left, complete is next;
                  \* "done": the call has returned
    sent,         \* the requests of the call that httpClient.Do took, in order
    received,     \* what Do returned for each of them, in the same order
    lastResp,     \* what Do returned for the last of them
    tokenCalls,   \* the token look-ups of the call, in order
    session,      \* putMultipart's locals: createResp, parts, partNumber, the body,
                  \* and whether its context is cancelled
    result,       \* what the call returned: [val, err]; None while it runs
    callers,      \* Puts that run side by side on the one Client, each with its own
                  \* locals (used by the specification of concurrent calls)
    minted        \* two GenerateClientToken calls, their arguments and the tokens
                  \* they returned (used by the specification of the token signer)

vars ==
    <<client, environ, call, pc, sent, received, lastResp, tokenCalls, session, result,
      callers, minted>>

(***************************************************************************)
(* Tokens (TokenProvider, Client.addAuthorizationHeader).  A token is a    *)
(* tuple; the empty string "" is the empty tuple.                          *)
(***************************************************************************)

\* The providers a Client is built with: none (NewClient), one that mints a
\* token for the operation and pathname it is asked for, one that has none.
TokenProviders == {"nil", "scoped", "deny"}

\* TokenProvider.GetToken(operation, pathname): the token ("" with an error
\* when the provider has none).
GetToken(provider, operation, pathname) ==
    IF provider = "scoped" THEN <<"tok", operation, pathname>> ELSE None

\* A look-up that prefers the environment variable to the provider.
ResolveToken_EnvFirst(operation, pathname) ==
    IF environ.BLOB_READ_WRITE_TOKEN # None \/ client.tokenProvider = "nil"
    THEN [src |-> "env", token |-> environ.BLOB_READ_WRITE_TOKEN]
    ELSE [src |-> "provider",
          token |-> GetToken(client.tokenProvider, operation, pathname)]

\* The look-up addAuthorizationHeader makes: the provider when the client has
\* one, the environment variable otherwise.  src tells which was asked.
ResolveToken(operation, pathname) ==
    IF client.tokenProvider # "nil"
    THEN [src |-> "provider",
          token |-> GetToken(client.tokenProvider, operation, pathname)]
    ELSE [src |-> "env", token |-> environ.BLOB_READ_WRITE_TOKEN]

\* The record of one look-up: who was asked, and with what arguments.
TokenLookup(operation, pathname) ==
    [src |-> ResolveToken(operation, pathname).src,
     operation |-> operation, pathname |-> pathname]

(***************************************************************************)
(* Requests.  Every header a request can carry is a field: None when it is *)
(* not set, Some(value) when it is.                                        *)
(***************************************************************************)

\* Client.getAPIURL(pathname): the base URL with its path replaced.
getAPIURL(pathname) == [base |-> client.baseURL, path |-> pathname, query |-> None]

\* http.NewRequestWithContext(ctx, method, url, body): no header set yet.
NewRequest(method, url, body) ==
    [method |-> method, url |-> url, body |-> body,
     apiVersion |-> None, authorization |-> None, contentType |-> None,
     xAddRandomSuffix |-> None, xContentType |-> None,
     xCacheControlMaxAge |-> None, xAccess |-> None,
     xMpuAction |-> None, xMpuUploadId |-> None, xMpuKey |-> None,
     xMpuPartNumber |-> None, range |-> None]

\* Client.addAPIVersionHeader
addAPIVersionHeader(req) == [req EXCEPT !.apiVersion = Some(client.apiVersion)]

\* Client.addAuthorizationHeader: the request with the header set and a nil
\* error, or the request as it was and ErrNotAuthenticated.
addAuthorizationHeader(req, operation, pathname) ==
    LET token == ResolveToken(operation, pathname).token
    IN  IF token = None
        THEN [req |-> req, err |-> ErrNotAuthenticated]
        ELSE [req |-> [req EXCEPT !.authorization = Some(<<"Bearer", token>>)],
              err |-> NoError]

\* Client.setPutHeaders
setPutHeaders(req, options) ==
    [req EXCEPT
        !.xAddRandomSuffix = IF ~options.AddRandomSuffix THEN Some("0") ELSE None,
        !.xContentType = IF options.ContentType # "" THEN Some(options.ContentType) ELSE None,
        !.xCacheControlMaxAge =
            IF options.CacheControlMaxAge > 0
            THEN Some(Itoa(options.CacheControlMaxAge)) ELSE None,
        !.xAccess = Some(IF options.Access = "" THEN "public" ELSE options.Access)]

(***************************************************************************)
(* Responses.  A response body is empty, is bytes that are no JSON object  *)
(* ("malformed"), breaks while it is read ("broken"), is cut off while it  *)
(* is read because the context of the request is cancelled ("canceled"),   *)
(* or is a JSON object ("json") with the fields the client's decoders look *)
(* at.                                                                     *)
(***************************************************************************)
Body(kind, code, message, uploadId, key, url) ==
    [kind |-> kind, code |-> code, message |-> message,
     uploadId |-> uploadId, key |-> key, url |-> url]

EmptyBody == Body("empty", "", "", "", "", "")
MalformedBody == Body("malformed", "", "", "", "", "")
BrokenBody == Body("broken", "", "", "", "", "")
CanceledBody == Body("canceled", "", "", "", "", "")

\* {"error": {"code": code, "message": message}}
Envelope(code, message) == Body("json", code, message, "", "", "")

\* {"url": url, ...}: a put, head or list result
ResultBody(url) == Body("json", "", "", "", "", url)

\* {"uploadId": uploadId, "key": key}
CreateBody(uploadId, key) == Body("json", "", "", uploadId, key, "")

\* json.NewDecoder(body).Decode(&v): the error, NoError when it decodes.
DecodeError(body) ==
    CASE body.kind = "empty" -> JSONError("EOF")
      [] body.kind = "malformed" -> JSONError("syntax")
      [] body.kind = "broken" -> ReadError("body")
      [] body.kind = "canceled" -> ContextCanceled
      [] OTHER -> NoError

\* An error mapper that has no case for the code not_found.
handleError_NoNotFound(resp) ==
    IF resp.status >= 500
    THEN NewUnknownError(resp.status, StatusText(resp.status))
    ELSE IF DecodeError(resp.body) # NoError
    THEN DecodeError(resp.body)
    ELSE CASE resp.body.code = "store_suspended" -> ErrStoreSuspended
           [] resp.body.code = "forbidden" -> ErrForbidden
           [] resp.body.code = "store_not_found" -> ErrStoreNotFound
           [] resp.body.code = "bad_request" -> ErrBadRequest(resp.body.message)
           [] OTHER -> NewUnknownError(resp.status, resp.body.message)

\* An error mapper whose test for a server error misses status 500.
handleError_Above500(resp) ==
    IF resp.status > 500
    THEN NewUnknownError(resp.status, StatusText(resp.status))
    ELSE IF DecodeError(resp.body) # NoError
    THEN DecodeError(resp.body)
    ELSE CASE resp.body.code = "store_suspended" -> ErrStoreSuspended
           [] resp.body.code = "forbidden" -> ErrForbidden
           [] resp.body.code = "not_found" -> ErrBlobNotFound
           [] resp.body.code = "store_not_found" -> ErrStoreNotFound
           [] resp.body.code = "bad_request" -> ErrBadRequest(resp.body.message)
           [] OTHER -> NewUnknownError(resp.status, resp.body.message)

\* Client.handleError
handleError(resp) ==
    IF resp.status >= 500
    THEN NewUnknownError(resp.status, StatusText(resp.status))
    ELSE IF DecodeError(resp.body) # NoError
    THEN DecodeError(resp.body)
    ELSE CASE resp.body.code = "store_suspended" -> ErrStoreSuspended
           [] resp.body.code = "forbidden" -> ErrForbidden
           [] resp.body.code = "not_found" -> ErrBlobNotFound
           [] resp.body.code = "store_not_found" -> ErrStoreNotFound
           [] resp.body.code = "bad_request" -> ErrBadRequest(resp.body.message)
           [] OTHER -> NewUnknownError(resp.status, resp.body.message)

(***************************************************************************)
(* The server.  httpClient.Do answers a request with a transport error,    *)
(* with the context's error when the context is cancelled while the        *)
(* request is in flight, or with a response: a status, a body and (for an  *)
(* uploaded part) an ETag.                                                 *)
(***************************************************************************)
Statuses == {StatusOK, StatusPartialContent, StatusNotFound, 500, 503}

ErrorCodes ==
    {"store_suspended", "forbidden", "not_found", "store_not_found", "bad_request", "teapot"}

Bodies ==
    {EmptyBody, MalformedBody, BrokenBody, CanceledBody, ResultBody("https://store/a.txt"),
     CreateBody("upload-1", "key-1")}
    \cup {Envelope(code, "msg") : code \in ErrorCodes}

NoResponse == [net |-> "none", status |-> 0, body |-> EmptyBody, etag |-> ""]

NetError == [net |-> "error", status |-> 0, body |-> EmptyBody, etag |-> ""]

NetCanceled == [net |-> "canceled", status |-> 0, body |-> EmptyBody, etag |-> ""]

\* The error Do returns with such an answer.
DoError(resp) == IF resp.net = "canceled" THEN ContextCanceled ELSE TransportError("Do")

ETags == {"etag-a", "etag-b"}

Response(status, body, etag) == [net |-> "ok", status |-> status, body |-> body, etag |-> etag]

\* What Do can return that is no 200 response.
NonOKResponses ==
    {NetError, NetCanceled}
    \cup {Response(st, b, "") : st \in Statuses \ {StatusOK}, b \in Bodies}

\* What Do can return for a request: anything.
Responses == NonOKResponses \cup {Response(StatusOK, b, "") : b \in Bodies}

\* For the create request the 200 responses carry the session's ids, or a
\* body that does not decode.
CreateResponses ==
    NonOKResponses
    \cup {Response(StatusOK, b, "") :
            b \in {CreateBody("upload-1", "key-1"), MalformedBody, BrokenBody,
                   CanceledBody}}

\* For an uploaded part the 200 responses carry an ETag and no body.
UploadResponses ==
    NonOKResponses \cup {Response(StatusOK, EmptyBody, e) : e \in ETags}

(***************************************************************************)
(* The request body of a Put: an io.Reader with total bytes of which pos   *)
(* are consumed.  cap is what the reader can do: "sizer" has Size(),       *)
(* "seeker" has Seek, "none" has neither.  failAt is None, or Some(k) for  *)
(* a reader whose Read fails once k bytes of it are consumed, and failErr  *)
(* is the error it fails with: "read" for an error of its own, or          *)
(* "ErrUnexpectedEOF" for a source that io.ErrUnexpectedEOF reports as cut *)
(* short.                                                                  *)
(***************************************************************************)
Min(a, b) == IF a < b THEN a ELSE b

\* Put's probe of the body's size (-1: unknown).
BodySize(body) ==
    IF body.cap = "sizer" THEN body.total
    ELSE IF body.cap = "seeker" THEN body.total
    ELSE -1

\* A ReadFull into a buffer that is one byte short of MultipartThreshold.
ReadFull_ShortBuffer(body) ==
    LET left == body.total - body.pos
        avail == IF body.failAt = None THEN left ELSE Min(left, body.failAt[1] - body.pos)
        n == Min(MultipartThreshold - 1, avail)
        err == IF n = MultipartThreshold - 1 THEN "nil"
               ELSE IF body.failAt # None THEN body.failErr
               ELSE IF n = 0 THEN "EOF"
               ELSE "ErrUnexpectedEOF"
    IN  [n |-> n, err |-> err, from |-> body.pos, body |-> [body EXCEPT !.pos = body.pos + n]]

\* io.ReadFull(body, buffer) with len(buffer) = MultipartThreshold: the bytes
\* read, the error ("nil", "EOF", "ErrUnexpectedEOF" or "read") and the
\* reader afterwards.  An error of the reader comes back as it is when the
\* buffer is not filled.
ReadFull(body) ==
    LET left == body.total - body.pos
        avail == IF body.failAt = None THEN left ELSE Min(left, body.failAt[1] - body.pos)
        n == Min(MultipartThreshold, avail)
        err == IF n = MultipartThreshold THEN "nil"
               ELSE IF body.failAt # None THEN body.failErr
               ELSE IF n = 0 THEN "EOF"
               ELSE "ErrUnexpectedEOF"
    IN  [n |-> n, err |-> err, from |-> body.pos, body |-> [body EXCEPT !.pos = body.pos + n]]

(***************************************************************************)
(* The arguments the callers pass.                                         *)
(***************************************************************************)
Pathnames == {"", "a.txt"}

URLs == {"", "https://store/a.txt", "https://store/b.txt"}

BodySizes == {k * MultipartThreshold + d : k \in 0..MaxChunks, d \in {0, 1}}

\* PutCommandOptions
DefaultOptions ==
    [AddRandomSuffix |-> FALSE, CacheControlMaxAge |-> 0, ContentType |-> "", Access |-> ""]

AllPutOptions ==
    [AddRandomSuffix : BOOLEAN, CacheControlMaxAge : {0, 60},
     ContentType : {"", "text/plain"}, Access : {"", "private"}]

\* Readers: fresh ones of every size, with Size() or with nothing; seekers that
\* are fresh, that were read by a byte, and that were read to their end before
\* the call; and ones whose Read fails.
FreshBodies ==
    {[cap |-> c, total |-> t, pos |-> 0, failAt |-> None, failErr |-> "nil"] :
        c \in {"sizer", "none"}, t \in BodySizes}

SeekerBodies ==
    {[cap |-> "seeker", total |-> t, pos |-> p, failAt |-> None, failErr |-> "nil"] :
        t \in {MultipartThreshold, MultipartThreshold + 1, 2 * MultipartThreshold + 1},
        p \in {0, 1}}
    \cup {[cap |-> "seeker", total |-> t, pos |-> t, failAt |-> None, failErr |-> "nil"] :
            t \in {MultipartThreshold, MultipartThreshold + 1}}

FailingBodies ==
    {[cap |-> "seeker", total |-> t, pos |-> 0, failAt |-> Some(k), failErr |-> e] :
        t \in {1, MultipartThreshold + 1, 2 * MultipartThreshold + 1},
        k \in {1, MultipartThreshold},
        e \in {"read", "ErrUnexpectedEOF"}}

PutBodies == FreshBodies \cup SeekerBodies \cup FailingBodies

SmallBody == [cap |-> "sizer", total |-> 1, pos |-> 0, failAt |-> None, failErr |-> "nil"]

BigBody ==
    [cap |-> "sizer", total |-> MultipartThreshold + 1, pos |-> 0,
     failAt |-> None, failErr |-> "nil"]

\* A seeker above the threshold that was read to its end before the call.
SpentBody ==
    [cap |-> "seeker", total |-> MultipartThreshold + 1, pos |-> MultipartThreshold + 1,
     failAt |-> None, failErr |-> "nil"]

PutInputs ==
    {[pathname |-> p, body |-> b, options |-> DefaultOptions] :
        p \in Pathnames, b \in PutBodies}
    \cup {[pathname |-> "a.txt", body |-> b, options |-> o] :
        b \in {SmallBody, SpentBody}, o \in AllPutOptions}

CopyInputs ==
    {[fromURL |-> u, toPath |-> p, options |-> DefaultOptions] : u \in URLs, p \in Pathnames}
    \cup {[fromURL |-> "https://store/a.txt", toPath |-> "a.txt", options |-> o] :
            o \in AllPutOptions}

\* ListCommandOptions
ListInputs ==
    [Limit : {0, 10}, Prefix : {"", "dir/"}, Cursor : {"", "abc"}, Mode : {"", "folded"}]

\* Delete's variadic urls
DeleteInputs ==
    {<<>>} \cup {<<u>> : u \in URLs \ {""}}
    \cup {<<"https://store/a.txt", "https://store/b.txt">>}

\* DownloadCommandOptions.ByteRange: nil, or a Range{Start, End}
ByteRanges == {None, Some([Start |-> 0, End |-> 4]), Some([Start |-> 5, End |-> 120])}

(***************************************************************************)
(* Init: a Client as NewClient or NewClientExternal builds it, in an       *)
(* environment where BLOB_READ_WRITE_TOKEN is set or is not.               *)
(***************************************************************************)
NoSession ==
    [createResp |-> [UploadID |-> "", Key |-> ""], parts |-> <<>>, partNumber |-> 0,
     ctxDone |-> FALSE,
     body |-> [cap |-> "none", total |-> 0, pos |-> 0, failAt |-> None, failErr |-> "nil"]]

Clients ==
    [tokenProvider : TokenProviders,
     baseURL : {"https://blob.vercel-storage.com"},
     apiVersion : {"9"}]

Environments == [BLOB_READ_WRITE_TOKEN : {None, <<"env-token">>}]

\* No call is running.
Idle ==
    /\ call = [op |-> "none"]
    /\ pc = "ready"
    /\ sent = <<>>
    /\ received = <<>>
    /\ lastResp = NoResponse
    /\ tokenCalls = <<>>
    /\ session = NoSession
    /\ result = None

Init ==
    /\ client \in Clients
    /\ environ \in Environments
    /\ Idle
    /\ callers = <<>>
    /\ minted = <<>>

\* The answers so far, with resp added when reqs has a request more than sent.
Answers(reqs, resp) == IF Len(reqs) > Len(sent) THEN Append(received, resp) ELSE received

\* A return that sends the last request once more when the call has failed.
Return_Retry(c, reqs, resp, lookups, val, err) ==
    /\ call' = c
    /\ pc' = "done"
    /\ sent' = IF err # NoError /\ Len(reqs) > Len(sent)
               THEN Append(reqs, reqs[Len(reqs)]) ELSE reqs
    /\ received' = IF err # NoError /\ Len(reqs) > Len(sent)
                   THEN Append(Append(received, resp), resp) ELSE Answers(reqs, resp)
    /\ lastResp' = resp
    /\ tokenCalls' = lookups
    /\ session' = NoSession
    /\ result' = Some([val |-> val, err |-> err])
    /\ UNCHANGED <<client, environ, callers, minted>>

\* A call that returns: its requests, the last answer and what it returns.
Return(c, reqs, resp, lookups, val, err) ==
    /\ call' = c
    /\ pc' = "done"
    /\ sent' = reqs
    /\ received' = Answers(reqs, resp)
    /\ lastResp' = resp
    /\ tokenCalls' = lookups
    /\ session' = NoSession
    /\ result' = Some([val |-> val, err |-> err])
    /\ UNCHANGED <<client, environ, callers, minted>>

\* The struct a result body decodes to; the zero struct when nothing decodes.
DecodeResult(body) == [URL |-> IF body.kind = "json" THEN body.url ELSE ""]

(***************************************************************************)
(* List                                                                    *)
(***************************************************************************)

\* The query List builds; url.Values.Encode writes it sorted by key.
ListQuery(options) ==
    (IF options.Cursor # "" THEN <<<<"cursor", options.Cursor>>>> ELSE <<>>)
    \o (IF options.Limit > 0 THEN <<<<"limit", Itoa(options.Limit)>>>> ELSE <<>>)
    \o (IF options.Mode # "" THEN <<<<"mode", options.Mode>>>> ELSE <<>>)
    \o (IF options.Prefix # "" THEN <<<<"prefix", options.Prefix>>>> ELSE <<>>)

ListRequest(options) ==
    addAPIVersionHeader(
        NewRequest("GET",
                   [base |-> client.baseURL, path |-> "", query |-> ListQuery(options)],
                   None))

\* What List and the single-shot Put make of Do's answer.
DecodedOutcome(resp) ==
    IF resp.net # "ok" THEN [val |-> None, err |-> DoError(resp)]
    ELSE IF resp.status # StatusOK THEN [val |-> None, err |-> handleError(resp)]
    ELSE IF DecodeError(resp.body) # NoError
    THEN [val |-> None, err |-> DecodeError(resp.body)]
    ELSE [val |-> Some(DecodeResult(resp.body)), err |-> NoError]

List(options) ==
    /\ pc = "ready"
    /\ LET c == [op |-> "List", options |-> options]
           auth == addAuthorizationHeader(ListRequest(options), "list", "")
           lookups == <<TokenLookup("list", "")>>
       IN  IF auth.err # NoError
           THEN Return(c, <<>>, NoResponse, lookups, None, auth.err)
           ELSE \E resp \in Responses :
                    Return(c, <<auth.req>>, resp, lookups,
                           DecodedOutcome(resp).val, DecodedOutcome(resp).err)

(***************************************************************************)
(* Put: single-shot, or the create request of putMultipart                 *)
(***************************************************************************)

\* A Put that takes the multipart path at the threshold already.
UseMultipart_Inclusive(size) == size >= MultipartThreshold

\* Put's choice of the multipart path.
UseMultipart(size) == size > MultipartThreshold

\* The single-shot request before its Authorization header is set.
PutRequest(pathname, body) ==
    addAPIVersionHeader(NewRequest("PUT", getAPIURL(pathname), <<"reader", body>>))

\* A create request that goes out without the put-option headers.
CreateRequest_NoPutHeaders(pathname, options) ==
    [addAuthorizationHeader(
        addAPIVersionHeader(NewRequest("POST", getAPIURL("/mpu"), None)),
        "put", pathname).req
     EXCEPT !.xMpuAction = Some("create")]

\* putMultipart's create request: the error of addAuthorizationHeader is dropped.
CreateRequest(pathname, options) ==
    [setPutHeaders(
        addAuthorizationHeader(
            addAPIVersionHeader(NewRequest("POST", getAPIURL("/mpu"), None)),
            "put", pathname).req,
        options)
     EXCEPT !.xMpuAction = Some("create")]

\* An upload loop that gives up on server errors only.
UploadOK_Below500(resp) == resp.status < 500

\* The three status tests of putMultipart.
CreateOK(resp) == resp.status = StatusOK

UploadOK(resp) == resp.status = StatusOK

CompleteOK(resp) == resp.status = StatusOK

\* The context was cancelled while this body was read.
CutShort(body) == body.kind = "canceled"

\* createResp after the create response is decoded, errors dropped.
DecodeCreate(body) ==
    IF body.kind = "json"
    THEN [UploadID |-> body.uploadId, Key |-> body.key]
    ELSE [UploadID |-> "", Key |-> ""]

Put(pathname, body, options) ==
    /\ pc = "ready"
    /\ LET c == [op |-> "Put", pathname |-> pathname, body |-> body, options |-> options]
           lookups == <<TokenLookup("put", pathname)>>
       IN  IF pathname = ""
           THEN Return(c, <<>>, NoResponse, <<>>, None, NewInvalidInputError("pathname"))
           ELSE IF UseMultipart(BodySize(body))
           THEN \E resp \in CreateResponses :
                    LET req == CreateRequest(pathname, options)
                    IN  IF resp.net # "ok"
                        THEN Return(c, <<req>>, resp, lookups, None, DoError(resp))
                        ELSE IF ~CreateOK(resp)
                        THEN Return(c, <<req>>, resp, lookups, None, handleError(resp))
                        ELSE /\ call' = c
                             /\ pc' = "mpu_upload"
                             /\ sent' = <<req>>
                             /\ received' = <<resp>>
                             /\ lastResp' = resp
                             /\ tokenCalls' = lookups
                             /\ session' = [createResp |-> DecodeCreate(resp.body),
                                            parts |-> <<>>, partNumber |-> 1,
                                            ctxDone |-> CutShort(resp.body),
                                            body |-> body]
                             /\ result' = None
                             /\ UNCHANGED <<client, environ, callers, minted>>
           ELSE LET auth == addAuthorizationHeader(PutRequest(pathname, body), "put", pathname)
                IN  IF auth.err # NoError
                    THEN Return(c, <<>>, NoResponse, lookups, None, auth.err)
                    ELSE \E resp \in Responses :
                             Return(c, <<setPutHeaders(auth.req, options)>>, resp, lookups,
                                    DecodedOutcome(resp).val, DecodedOutcome(resp).err)

(***************************************************************************)
(* putMultipart: one turn of the read loop, and the complete request.  A   *)
(* request made with a context that is cancelled already is refused by Do  *)
(* with the context's error and does not go out.                           *)
(***************************************************************************)

\* The request that uploads the chunk of n bytes read at offset from.
UploadRequest(pathname, createResp, partNumber, from, n) ==
    [addAuthorizationHeader(
        addAPIVersionHeader(NewRequest("PUT", getAPIURL("/mpu"), <<"bytes", from, n>>)),
        "put", pathname).req
     EXCEPT !.xMpuAction = Some("upload"),
            !.xMpuUploadId = Some(createResp.UploadID),
            !.xMpuKey = Some(createResp.Key),
            !.xMpuPartNumber = Some(Itoa(partNumber))]

\* A part that is recorded without the ETag of its response.
NewPart_NoETag(etag, partNumber) == [ETag |-> "", PartNumber |-> partNumber]

\* Part{ETag: etag, PartNumber: partNumber}
NewPart(etag, partNumber) == [ETag |-> etag, PartNumber |-> partNumber]

\* A loop that forgets partNumber++.
NextPartNumber_Stuck(partNumber) == partNumber

\* partNumber++
NextPartNumber(partNumber) == partNumber + 1

\* A loop that leaves for complete after its first turn.
AfterRead_Early(err) == "mpu_complete"

\* The loop's exit test on ReadFull's error: leave for complete, go on, or fail.
AfterRead(err) ==
    IF err = "EOF" \/ err = "ErrUnexpectedEOF" THEN "mpu_complete"
    ELSE IF err # "nil" THEN "fail"
    ELSE "mpu_upload"

\* The call goes on in putMultipart.
Continue(next, reqs, resp, lookups, sess) ==
    IF next = "fail"
    THEN Return(call, reqs, resp, lookups, None, ReadError("body"))
    ELSE /\ pc' = next
         /\ sent' = reqs
         /\ received' = Answers(reqs, resp)
         /\ lastResp' = resp
         /\ tokenCalls' = lookups
         /\ session' = sess
         /\ UNCHANGED <<client, environ, call, result, callers, minted>>

MpuUpload ==
    /\ pc = "mpu_upload"
    /\ LET rd == ReadFull(session.body)
           req == UploadRequest(call.pathname, session.createResp, session.partNumber,
                                rd.from, rd.n)
           lookups == Append(tokenCalls, TokenLookup("put", call.pathname))
       IN  IF rd.n > 0 /\ session.ctxDone
           THEN Return(call, sent, lastResp, lookups, None, ContextCanceled)
           ELSE IF rd.n > 0
           THEN \E resp \in UploadResponses :
                    IF resp.net # "ok"
                    THEN Return(call, Append(sent, req), resp, lookups, None, DoError(resp))
                    ELSE IF ~UploadOK(resp)
                    THEN Return(call, Append(sent, req), resp, lookups, None,
                                handleError(resp))
                    ELSE Continue(AfterRead(rd.err), Append(sent, req), resp, lookups,
                                  [session EXCEPT
                                      !.parts = Append(@, NewPart(resp.etag,
                                                                  session.partNumber)),
                                      !.partNumber = NextPartNumber(@),
                                      !.body = rd.body])
           ELSE Continue(AfterRead(rd.err), sent, lastResp, tokenCalls,
                         [session EXCEPT !.body = rd.body])

\* The complete request: its body is the JSON of completeMultipartUploadRequest.
CompleteRequest(pathname, createResp, parts) ==
    [addAuthorizationHeader(
        addAPIVersionHeader(
            NewRequest("POST", getAPIURL("/mpu"),
                       <<"json", [uploadId |-> createResp.UploadID,
                                  key |-> createResp.Key, parts |-> parts]>>)),
        "put", pathname).req
     EXCEPT !.xMpuAction = Some("complete")]

MpuComplete ==
    /\ pc = "mpu_complete"
    /\ LET req == CompleteRequest(call.pathname, session.createResp, session.parts)
           lookups == Append(tokenCalls, TokenLookup("put", call.pathname))
       IN  IF session.ctxDone
           THEN Return(call, sent, lastResp, lookups, None, ContextCanceled)
           ELSE \E resp \in Responses :
               IF resp.net # "ok"
               THEN Return(call, Append(sent, req), resp, lookups, None, DoError(resp))
               ELSE IF ~CompleteOK(resp)
               THEN Return(call, Append(sent, req), resp, lookups, None, handleError(resp))
               ELSE Return(call, Append(sent, req), resp, lookups,
                           Some(DecodeResult(resp.body)), NoError)

(***************************************************************************)
(* Head                                                                    *)
(***************************************************************************)
HeadRequest(pathname) ==
    addAuthorizationHeader(
        addAPIVersionHeader(NewRequest("GET", getAPIURL(pathname), None)),
        "put", pathname).req

\* A Head without its own answer to 404.
HeadOutcome_NoNotFound(resp) ==
    IF resp.net # "ok" THEN [val |-> None, err |-> DoError(resp)]
    ELSE IF resp.status # StatusOK THEN [val |-> None, err |-> handleError(resp)]
    ELSE IF DecodeError(resp.body) # NoError
    THEN [val |-> None, err |-> DecodeError(resp.body)]
    ELSE [val |-> Some(DecodeResult(resp.body)), err |-> NoError]

\* What Head makes of Do's answer.
HeadOutcome(resp) ==
    IF resp.net # "ok" THEN [val |-> None, err |-> DoError(resp)]
    ELSE IF resp.status = StatusNotFound THEN [val |-> None, err |-> ErrBlobNotFound]
    ELSE IF resp.status # StatusOK THEN [val |-> None, err |-> handleError(resp)]
    ELSE IF DecodeError(resp.body) # NoError
    THEN [val |-> None, err |-> DecodeError(resp.body)]
    ELSE [val |-> Some(DecodeResult(resp.body)), err |-> NoError]

\* Client.Head (Head is the Sequences operator, so the action is HeadBlob).
HeadBlob(pathname) ==
    /\ pc = "ready"
    /\ \E resp \in Responses :
           Return([op |-> "Head", pathname |-> pathname], <<HeadRequest(pathname)>>, resp,
                  <<TokenLookup("put", pathname)>>,
                  HeadOutcome(resp).val, HeadOutcome(resp).err)

(***************************************************************************)
(* Delete                                                                  *)
(***************************************************************************)

\* An early return that also drops a single URL.
DeleteIsNoop_UpToOne(urls) == Len(urls) <= 1

\* Delete's early return: nothing to delete.
DeleteIsNoop(urls) == Len(urls) = 0

DeleteRequest(urls) ==
    addAuthorizationHeader(
        addAPIVersionHeader(
            [NewRequest("POST", getAPIURL("/delete"), <<"json", [urls |-> urls]>>)
             EXCEPT !.contentType = Some("application/json")]),
        "delete", urls[1]).req

DeleteOutcome(resp) ==
    IF resp.net # "ok" THEN DoError(resp)
    ELSE IF resp.status # StatusOK THEN handleError(resp)
    ELSE NoError

Delete(urls) ==
    /\ pc = "ready"
    /\ LET c == [op |-> "Delete", urls |-> urls]
       IN  IF DeleteIsNoop(urls)
           THEN Return(c, <<>>, NoResponse, <<>>, None, NoError)
           ELSE \E resp \in Responses :
                    Return(c, <<DeleteRequest(urls)>>, resp,
                           <<TokenLookup("delete", urls[1])>>, None, DeleteOutcome(resp))

(***************************************************************************)
(* Copy                                                                    *)
(***************************************************************************)
CopyRequest(fromURL, toPath, options) ==
    setPutHeaders(
        addAuthorizationHeader(
            addAPIVersionHeader(
                NewRequest("PUT",
                           [getAPIURL(toPath) EXCEPT !.query = <<<<"fromUrl", fromURL>>>>],
                           None)),
            "put", toPath).req,
        options)

\* The decode error of the result is dropped.
CopyOutcome(resp) ==
    IF resp.net # "ok" THEN [val |-> None, err |-> DoError(resp)]
    ELSE IF resp.status # StatusOK THEN [val |-> None, err |-> handleError(resp)]
    ELSE [val |-> Some(DecodeResult(resp.body)), err |-> NoError]

Copy(fromURL, toPath, options) ==
    /\ pc = "ready"
    /\ LET c == [op |-> "Copy", fromURL |-> fromURL, toPath |-> toPath, options |-> options]
       IN  IF fromURL = ""
           THEN Return(c, <<>>, NoResponse, <<>>, None, NewInvalidInputError("fromURL"))
           ELSE IF toPath = ""
           THEN Return(c, <<>>, NoResponse, <<>>, None, NewInvalidInputError("toPath"))
           ELSE \E resp \in Responses :
                    Return(c, <<CopyRequest(fromURL, toPath, options)>>, resp,
                           <<TokenLookup("put", toPath)>>,
                           CopyOutcome(resp).val, CopyOutcome(resp).err)

(***************************************************************************)
(* Download                                                                *)
(***************************************************************************)

\* fmt.Sprintf("bytes=%d-%d", Start, End)
RangeHeader(r) == <<"bytes=", Itoa(r.Start), "-", Itoa(r.End)>>

DownloadRequest(urlPath, byteRange) ==
    [addAuthorizationHeader(
        addAPIVersionHeader(
            NewRequest("GET", [base |-> urlPath, path |-> "", query |-> None], None)),
        "download", urlPath).req
     EXCEPT !.range = IF byteRange # None THEN Some(RangeHeader(byteRange[1])) ELSE None]

\* A Download that takes 200 alone for success.
DownloadOK_Only200(resp) == resp.status = StatusOK

\* The statuses Download reads the body of.
DownloadOK(resp) == resp.status = StatusOK \/ resp.status = StatusPartialContent

\* io.ReadAll(resp.Body): the bytes, and the error that cut them short.
DownloadOutcome(resp) ==
    IF resp.net # "ok" THEN [val |-> None, err |-> DoError(resp)]
    ELSE IF ~DownloadOK(resp) THEN [val |-> None, err |-> handleError(resp)]
    ELSE IF DecodeError(resp.body).type \in {"read", "context"}
    THEN [val |-> Some(resp.body), err |-> DecodeError(resp.body)]
    ELSE [val |-> Some(resp.body), err |-> NoError]

\* Do refuses a request whose URL has no scheme: nothing is sent.
Download(urlPath, byteRange) ==
    /\ pc = "ready"
    /\ LET c == [op |-> "Download", urlPath |-> urlPath, byteRange |-> byteRange]
           lookups == <<TokenLookup("download", urlPath)>>
       IN  IF urlPath = ""
           THEN Return(c, <<>>, NetError, lookups, None,
                       TransportError("unsupported protocol scheme"))
           ELSE \E resp \in Responses :
                    Return(c, <<DownloadRequest(urlPath, byteRange)>>, resp, lookups,
                           DownloadOutcome(resp).val, DownloadOutcome(resp).err)

(***************************************************************************)
(* The specification: the caller runs one operation after another.         *)
(***************************************************************************)

\* The caller takes the result; the Client is ready for the next call.
NextCall ==
    /\ pc = "done"
    /\ call' = [op |-> "none"]
    /\ pc' = "ready"
    /\ sent' = <<>>
    /\ received' = <<>>
    /\ lastResp' = NoResponse
    /\ tokenCalls' = <<>>
    /\ session' = NoSession
    /\ result' = None
    /\ UNCHANGED <<client, environ, callers, minted>>

Next ==
    \/ \E o \in ListInputs : List(o)
    \/ \E i \in PutInputs : Put(i.pathname, i.body, i.options)
    \/ MpuUpload
    \/ MpuComplete
    \/ \E p \in Pathnames : HeadBlob(p)
    \/ \E us \in DeleteInputs : Delete(us)
    \/ \E i \in CopyInputs : Copy(i.fromURL, i.toPath, i.options)
    \/ \E u \in URLs, r \in ByteRanges : Download(u, r)
    \/ NextCall

Spec == Init /\ [][Next]_vars

(***************************************************************************)
(* Concurrent calls: two goroutines call Put on the one Client.  Each call *)
(* has its own arguments and its own frame of putMultipart's locals; a     *)
(* step is what a call does up to and including its next httpClient.Do, so *)
(* the requests of the two calls reach the server in any interleaving.     *)
(* The server hands out either upload id to either create request.         *)
(***************************************************************************)
Callers == {1, 2}

\* A frame that all calls share, as a field of the Client would be.
Frame_Shared(t) == 1

\* The frame of call t: createResp, parts, partNumber and buffer are locals of
\* putMultipart, one set per call.
Frame(t) == t

NoCall ==
    [pc |-> "ready", pathname |-> "", sent |-> <<>>, received |-> <<>>, result |-> None]

ConcBodies ==
    {SmallBody, BigBody,
     [cap |-> "seeker", total |-> 2 * MultipartThreshold, pos |-> 0,
      failAt |-> None, failErr |-> "nil"]}

ConcCreateResponses ==
    {NetError, Response(StatusOK, CreateBody("upload-1", "key-1"), ""),
     Response(StatusOK, CreateBody("upload-2", "key-2"), "")}

ConcUploadResponses ==
    {Response(StatusNotFound, EmptyBody, "")}
    \cup {Response(StatusOK, EmptyBody, e) : e \in ETags}

ConcResponses ==
    {Response(StatusOK, ResultBody("https://store/a.txt"), ""), Response(503, EmptyBody, "")}

ConcInit ==
    /\ client \in Clients
    /\ environ \in Environments
    /\ Idle
    /\ callers = [calls |-> [t \in Callers |-> NoCall],
                  frames |-> [t \in Callers |-> NoSession]]
    /\ minted = <<>>

\* Call t goes on: where it is, what it has sent and got, and its frame.
ConcStep(t, next, pathname, reqs, resps, frame, res) ==
    /\ callers' =
          [calls |-> [callers.calls EXCEPT
                         ![t] = [pc |-> next, pathname |-> pathname, sent |-> reqs,
                                 received |-> resps, result |-> res]],
           frames |-> [callers.frames EXCEPT ![Frame(t)] = frame]]
    /\ UNCHANGED <<client, environ, call, pc, sent, received, lastResp, tokenCalls,
                   session, result, minted>>

\* Call t returns.
ConcReturn(t, reqs, resps, val, err) ==
    ConcStep(t, "done", callers.calls[t].pathname, reqs, resps,
             callers.frames[Frame(t)], Some([val |-> val, err |-> err]))

\* Client.Put up to its first Do: single-shot, or putMultipart's create.
ConcPut(t, pathname, body) ==
    /\ callers.calls[t].pc = "ready"
    /\ callers.calls[t].result = None
    /\ IF UseMultipart(BodySize(body))
       THEN \E resp \in ConcCreateResponses :
                LET req == CreateRequest(pathname, DefaultOptions)
                IN  IF resp.net # "ok"
                    THEN ConcStep(t, "done", pathname, <<req>>, <<resp>>,
                                  callers.frames[Frame(t)],
                                  Some([val |-> None, err |-> DoError(resp)]))
                    ELSE IF ~CreateOK(resp)
                    THEN ConcStep(t, "done", pathname, <<req>>, <<resp>>,
                                  callers.frames[Frame(t)],
                                  Some([val |-> None, err |-> handleError(resp)]))
                    ELSE ConcStep(t, "mpu_upload", pathname, <<req>>, <<resp>>,
                                  [createResp |-> DecodeCreate(resp.body),
                                   parts |-> <<>>, partNumber |-> 1,
                                   ctxDone |-> CutShort(resp.body), body |-> body],
                                  None)
       ELSE LET auth == addAuthorizationHeader(PutRequest(pathname, body), "put", pathname)
            IN  IF auth.err # NoError
                THEN ConcStep(t, "done", pathname, <<>>, <<>>, callers.frames[Frame(t)],
                              Some([val |-> None, err |-> auth.err]))
                ELSE \E resp \in ConcResponses :
                         ConcStep(t, "done", pathname,
                                  <<setPutHeaders(auth.req, DefaultOptions)>>, <<resp>>,
                                  callers.frames[Frame(t)],
                                  Some(DecodedOutcome(resp)))

\* One turn of the read loop of call t.
ConcUpload(t) ==
    /\ callers.calls[t].pc = "mpu_upload"
    /\ LET c == callers.calls[t]
           frame == callers.frames[Frame(t)]
           rd == ReadFull(frame.body)
           req == UploadRequest(c.pathname, frame.createResp, frame.partNumber,
                                rd.from, rd.n)
           next == AfterRead(rd.err)
       IN  IF rd.n > 0
           THEN \E resp \in ConcUploadResponses :
                    IF resp.net # "ok"
                    THEN ConcReturn(t, Append(c.sent, req), Append(c.received, resp),
                                    None, DoError(resp))
                    ELSE IF ~UploadOK(resp)
                    THEN ConcReturn(t, Append(c.sent, req), Append(c.received, resp),
                                    None, handleError(resp))
                    ELSE ConcStep(t, IF next = "fail" THEN "done" ELSE next, c.pathname,
                                  Append(c.sent, req), Append(c.received, resp),
                                  [frame EXCEPT
                                      !.parts = Append(@, NewPart(resp.etag,
                                                                  frame.partNumber)),
                                      !.partNumber = NextPartNumber(@),
                                      !.body = rd.body],
                                  IF next = "fail"
                                  THEN Some([val |-> None, err |-> ReadError("body")])
                                  ELSE None)
           ELSE ConcStep(t, IF next = "fail" THEN "done" ELSE next, c.pathname,
                         c.sent, c.received, [frame EXCEPT !.body = rd.body],
                         IF next = "fail"
                         THEN Some([val |-> None, err |-> ReadError("body")])
                         ELSE None)

\* The complete request of call t.
ConcComplete(t) ==
    /\ callers.calls[t].pc = "mpu_complete"
    /\ LET c == callers.calls[t]
           frame == callers.frames[Frame(t)]
           req == CompleteRequest(c.pathname, frame.createResp, frame.parts)
       IN  \E resp \in ConcResponses :
               IF resp.net # "ok"
               THEN ConcReturn(t, Append(c.sent, req), Append(c.received, resp),
                               None, DoError(resp))
               ELSE IF ~CompleteOK(resp)
               THEN ConcReturn(t, Append(c.sent, req), Append(c.received, resp),
                               None, handleError(resp))
               ELSE ConcReturn(t, Append(c.sent, req), Append(c.received, resp),
                               Some(DecodeResult(resp.body)), NoError)

ConcNext ==
    \/ \E t \in Callers, b \in ConcBodies : ConcPut(t, "a.txt", b)
    \/ \E t \in Callers : ConcUpload(t)
    \/ \E t \in Callers : ConcComplete(t)

ConcSpec == ConcInit /\ [][ConcNext]_vars

(***************************************************************************)
(* GenerateClientToken.  The JSON of the options is the sequence of its    *)
(* members; HMAC-SHA256 and the hex encoding are terms over their          *)
(* arguments, so two signatures are equal exactly when key and message     *)
(* are (the signer is taken to be free of collisions).                     *)
(***************************************************************************)

\* json.Marshal(options) without the expiresAt member.
Marshal_NoExpiry(options) ==
    <<<<"operation", options.Operation>>>>
    \o (IF options.Pathname # "" THEN <<<<"pathname", options.Pathname>>>> ELSE <<>>)

\* json.Marshal(options): pathname and expiresAt are omitempty.
Marshal(options) ==
    <<<<"operation", options.Operation>>>>
    \o (IF options.Pathname # "" THEN <<<<"pathname", options.Pathname>>>> ELSE <<>>)
    \o (IF options.ExpiresAt # 0
        THEN <<<<"expiresAt", Itoa(options.ExpiresAt)>>>> ELSE <<>>)

\* hmac.New(sha256.New, key), Write(message), Sum(nil)
HMACSHA256(key, message) == <<"hmac-sha256", key, message>>

\* hex.EncodeToString
HexEncode(bytes) == <<"hex", bytes>>

\* time.Hour, in the seconds of time.Time.Unix
Hour == 3600

\* The string GenerateClientToken returns when the clock reads now.
ClientToken(token, options, now) ==
    LET opts == IF options.ExpiresAt = 0
                THEN [options EXCEPT !.ExpiresAt = now + Hour]
                ELSE options
        payload == Marshal(opts)
    IN  <<HexEncode(payload), ".", HexEncode(HMACSHA256(token, payload))>>

Secrets == {"secret-1", "secret-2"}

\* ClientTokenOptions
TokenOptions ==
    [Operation : {"put", "delete"}, Pathname : {"", "a.txt"},
     ExpiresAt : {0, 1000 + Hour, 9000}]

\* What time.Now().Unix() reads.
Clock == {1000, 2000}

\* The calls that are compared.
Runs == {1, 2}

TokenInit ==
    /\ client \in Clients
    /\ environ \in Environments
    /\ Idle
    /\ callers = <<>>
    /\ minted = <<>>

GenerateClientToken(token, options, now) ==
    /\ Len(minted) < Cardinality(Runs)
    /\ minted' = Append(minted, [token |-> token, options |-> options, now |-> now,
                                 out |-> ClientToken(token, options, now)])
    /\ UNCHANGED <<client, environ, call, pc, sent, received, lastResp, tokenCalls,
                   session, result, callers>>

TokenNext ==
    \E token \in Secrets, options \in TokenOptions, now \in Clock :
        GenerateClientToken(token, options, now)

TokenSpec == TokenInit /\ [][TokenNext]_vars

(***************************************************************************)
(* Properties.  The requests of a call, by kind.                           *)
(***************************************************************************)
MpuURL == [base |-> client.baseURL, path |-> "/mpu", query |-> None]

IsSinglePut(r) == r.method = "PUT" /\ r.xMpuAction = None

IsCreate(r) == r.method = "POST" /\ r.url = MpuURL /\ r.xMpuAction = Some("create")

IsUpload(r) == r.method = "PUT" /\ r.url = MpuURL /\ r.xMpuAction = Some("upload")

IsComplete(r) == r.method = "POST" /\ r.url = MpuURL /\ r.xMpuAction = Some("complete")

\* The upload-part requests of the call, in the order they were issued.
Uploads == SelectSeq(sent, IsUpload)

\* The bytes of the body that were unread when Put was called.
InputLen == call.body.total - call.body.pos

\* The bytes of it that the reader delivers before it ends or fails.
Delivered ==
    IF call.body.failAt = None THEN InputLen
    ELSE Min(InputLen, call.body.failAt[1] - call.body.pos)

\* The chunks of MultipartThreshold bytes that n bytes split into.
NumChunks(n) == (n + MultipartThreshold - 1) \div MultipartThreshold

IsPut == call.op = "Put" /\ call.pathname # ""

Returned == pc = "done"

Succeeded == pc = "done" /\ result[1].err = NoError

\* C1 as stated, read in its favour (a token resolves and the call returns no
\* error): a Put of at most MultipartThreshold bytes issues exactly one request,
\* a single PUT to base + pathname; a Put of more bytes issues no single-shot
\* PUT but one create, at least one upload-part and one complete.
C1_AsStated ==
    (IsPut /\ Succeeded) =>
        /\ InputLen <= MultipartThreshold =>
              /\ Len(sent) = 1
              /\ IsSinglePut(sent[1])
              /\ sent[1].url = [base |-> client.baseURL, path |-> call.pathname,
                                query |-> None]
        /\ InputLen > MultipartThreshold =>
              /\ \A i \in 1..Len(sent) : ~IsSinglePut(sent[i])
              /\ Len(sent) >= 3
              /\ IsCreate(sent[1])
              /\ IsComplete(sent[Len(sent)])
              /\ \A i \in 2..(Len(sent) - 1) : IsUpload(sent[i])

\* C1 (amended): the path is chosen by the size the body reports.  When it is at
\* most MultipartThreshold, or unknown, Put issues at most one request, a single
\* PUT to base + pathname, and exactly one when a token resolves.  When it is
\* larger, Put issues no single-shot PUT: the first request is the create
\* request, then come upload-part requests, and a complete request is the last
\* one of the call; a call that returns no error has issued one create, one
\* upload-part per chunk the reader delivered, and one complete.
C1_PutRequests ==
    IsPut =>
        LET size == IF call.body.cap = "none" THEN -1 ELSE call.body.total
            hasToken == IF client.tokenProvider = "nil"
                        THEN environ.BLOB_READ_WRITE_TOKEN # None
                        ELSE client.tokenProvider = "scoped"
        IN  /\ size <= MultipartThreshold =>
                  /\ Returned
                  /\ Len(sent) = (IF hasToken THEN 1 ELSE 0)
                  /\ \A i \in 1..Len(sent) :
                        /\ IsSinglePut(sent[i])
                        /\ sent[i].url = [base |-> client.baseURL, path |-> call.pathname,
                                          query |-> None]
            /\ size > MultipartThreshold =>
                  /\ Len(sent) >= 1
                  /\ IsCreate(sent[1])
                  /\ \A i \in 1..Len(sent) : ~IsSinglePut(sent[i])
                  /\ \A i \in 2..Len(sent) :
                        \/ IsUpload(sent[i])
                        \/ IsComplete(sent[i]) /\ i = Len(sent) /\ Returned
                  /\ Succeeded =>
                        /\ IsComplete(sent[Len(sent)])
                        /\ Len(Uploads) = NumChunks(Delivered)
                        /\ Len(sent) = Len(Uploads) + 2
                        /\ Delivered > 0 => Len(Uploads) >= 1

\* A multipart Put of two chunks has returned without error.
C1_Witness ==
    /\ IsPut /\ Succeeded
    /\ call.body.total > MultipartThreshold
    /\ Len(sent) = 4
    /\ IsCreate(sent[1]) /\ IsUpload(sent[2]) /\ IsUpload(sent[3]) /\ IsComplete(sent[4])

\* C2: in every multipart Put the X-MPU-Part-Number values of the upload-part
\* requests, in the order of issue, are 1, 2, ..., N: the i-th upload-part
\* request carries the i-th chunk read from the input, which is not empty,
\* and the number i; a call that returns no error has sent one per chunk
\* that was read.
C2_PartNumbers ==
    IsPut =>
        /\ \A i \in 1..Len(Uploads) :
              /\ Uploads[i].xMpuPartNumber # None
              /\ Atoi(Uploads[i].xMpuPartNumber[1]) = i
              /\ Uploads[i].body[1] = "bytes"
              /\ Uploads[i].body[2] = call.body.pos + (i - 1) * MultipartThreshold
              /\ Uploads[i].body[3] \in 1..MultipartThreshold
        /\ Succeeded /\ Len(sent) > 1 => Len(Uploads) = NumChunks(Delivered)

\* A multipart Put has uploaded three parts and returned.
C2_Witness ==
    /\ IsPut /\ Succeeded
    /\ Len(Uploads) = 3
    /\ Uploads[3].xMpuPartNumber = Some(<<3>>)

Authorized(r) ==
    /\ r.apiVersion # None
    /\ r.authorization # None
    /\ r.authorization[1][1] = "Bearer"
    /\ r.authorization[1][2] # None

\* The token the client can resolve for the call; None when there is none.
HasToken ==
    IF client.tokenProvider = "nil"
    THEN environ.BLOB_READ_WRITE_TOKEN # None
    ELSE client.tokenProvider = "scoped"

\* The call got as far as asking for a token.
NeedsToken == call.op # "none" /\ tokenCalls # <<>>

\* C3: when no token can be resolved the operation returns the
\* not-authenticated error and sends no request; every request that is sent
\* carries x-api-version and an Authorization: Bearer header with a token.
C3_AsStated ==
    /\ \A i \in 1..Len(sent) : Authorized(sent[i])
    /\ (Returned /\ NeedsToken /\ ~HasToken) =>
          /\ sent = <<>>
          /\ result[1].err = ErrNotAuthenticated

\* The multipart call has a request behind it.
IsMultipart == IsPut /\ Len(sent) >= 1 /\ IsCreate(sent[1])

NonSuccess(resp) == resp.net = "ok" /\ resp.status # StatusOK

\* C4: in a multipart Put a non-success response to the create request, to an
\* upload-part request or to the complete request makes Put return an error
\* and no result, and the call sends nothing after that response: the only
\* step left is the caller's next call.
C4_AbortOnFailure ==
    /\ [](IsMultipart /\ NonSuccess(lastResp) =>
            /\ Returned
            /\ result[1].err # NoError
            /\ result[1].val = None)
    /\ [][IsMultipart /\ NonSuccess(lastResp) => pc' = "ready" /\ sent' = <<>>]_vars

\* The second part of a multipart Put was answered 404.
C4_Witness ==
    /\ IsMultipart /\ Returned
    /\ Len(sent) = 3 /\ IsUpload(sent[3])
    /\ lastResp.net = "ok" /\ lastResp.status = StatusNotFound
    /\ result[1].err # NoError

\* C5: when the server answers with a status of 500 or more, the operation
\* returns unknown_error with the status code and the status text, whatever
\* the body is.
C5_ServerError ==
    (Returned /\ lastResp.net = "ok" /\ lastResp.status >= 500) =>
        /\ result[1].val = None
        /\ result[1].err.type = "Error"
        /\ result[1].err.code = "unknown_error"
        /\ Atoi(result[1].err.msg[2]) = lastResp.status
        /\ result[1].err.msg[4] =
              (IF lastResp.status = 503 THEN "Service Unavailable"
               ELSE "Internal Server Error")

\* An upload-part request was answered 503 with a not_found envelope.
C5_Witness ==
    /\ IsMultipart /\ Returned
    /\ IsUpload(sent[Len(sent)])
    /\ lastResp.status = 503
    /\ lastResp.body = Envelope("not_found", "msg")
    /\ result[1].err.code = "unknown_error"

\* The response is one the operation takes for a failure: any status but 200,
\* and for Download any status but 200 and 206.
Failed(resp) ==
    /\ resp.net = "ok"
    /\ resp.status # StatusOK
    /\ call.op = "Download" => resp.status # StatusPartialContent

HasEnvelope(resp, code) == resp.net = "ok" /\ resp.body.kind = "json" /\ resp.body.code = code

\* C6 as stated: when a response that is no success carries the error envelope
\* with code not_found, the operation returns the blob-not-found error.
C6_AsStated ==
    (Returned /\ Failed(lastResp) /\ HasEnvelope(lastResp, "not_found")) =>
        result[1].err = ErrBlobNotFound

\* C6 (amended): when a response with a non-success status below 500 carries
\* the error envelope with code not_found and any message, the operation
\* returns the blob-not-found error and not unknown-error.
C6_NotFound ==
    (Returned /\ Failed(lastResp) /\ lastResp.status < 500
        /\ HasEnvelope(lastResp, "not_found")) =>
        /\ result[1].err.type = "Error"
        /\ result[1].err.code = "not_found"
        /\ result[1].val = None

\* A Delete was answered 206 with a not_found envelope.
C6_Witness ==
    /\ Returned /\ call.op = "Delete"
    /\ lastResp.status = StatusPartialContent
    /\ HasEnvelope(lastResp, "not_found")
    /\ result[1].err.code = "not_found"

Taxonomy ==
    {"not_authenticated", "bad_request", "forbidden", "store_not_found",
     "store_suspended", "not_found", "invalid_input", "unknown_error"}

KnownCodes == {"store_suspended", "forbidden", "not_found", "store_not_found", "bad_request"}

\* C7: for a non-success response the error returned is one of the typed
\* taxonomy; when the status is below 500 and the body's code is unrecognized
\* or the body does not decode as the envelope, it is unknown_error with the
\* original status (Head's own answer to 404 set aside).
C7_AsStated ==
    (Returned /\ Failed(lastResp)) =>
        /\ result[1].err.type = "Error"
        /\ result[1].err.code \in Taxonomy
        /\ (/\ lastResp.status < 500
            /\ ~(call.op = "Head" /\ lastResp.status = StatusNotFound)
            /\ \/ lastResp.body.kind # "json"
               \/ lastResp.body.code \notin KnownCodes) =>
              /\ result[1].err.code = "unknown_error"
              /\ Atoi(result[1].err.msg[2]) = lastResp.status

\* The operation string and the pathname or URL each operation asks a token for.
TokenOperation ==
    CASE call.op = "List" -> "list"
      [] call.op = "Delete" -> "delete"
      [] call.op = "Download" -> "download"
      [] OTHER -> "put"

TokenTarget ==
    CASE call.op = "List" -> ""
      [] call.op = "Delete" -> call.urls[1]
      [] call.op = "Download" -> call.urlPath
      [] call.op = "Copy" -> call.toPath
      [] OTHER -> call.pathname

C9_Delete ==
    (Returned /\ call.op = "Delete") =>
        /\ Len(call.urls) = 0 =>
              /\ sent = <<>>
              /\ tokenCalls = <<>>
              /\ result[1].err = NoError
        /\ Len(call.urls) >= 1 =>
              /\ Len(sent) = 1
              /\ sent[1].method = "POST"
              /\ sent[1].url = [base |-> client.baseURL, path |-> "/delete", query |-> None]

\* Delete was called with no URL and has returned.
C9_Witness ==
    /\ Returned /\ call.op = "Delete" /\ call.urls = <<>>
    /\ sent = <<>> /\ result[1].err = NoError

\* C10: Download sets Range: bytes=<start>-<end> exactly when a byte range is
\* asked for; a 206 response is a success like a 200 one, the body's bytes
\* being returned with a nil error once they are read; every other status is
\* returned as the error of the error mapper.
C10_Download ==
    (Returned /\ call.op = "Download" /\ call.urlPath # "") =>
        /\ Len(sent) = 1
        /\ call.byteRange = None => sent[1].range = None
        /\ call.byteRange # None =>
              /\ sent[1].range # None
              /\ sent[1].range[1][1] = "bytes="
              /\ Atoi(sent[1].range[1][2]) = call.byteRange[1].Start
              /\ sent[1].range[1][3] = "-"
              /\ Atoi(sent[1].range[1][4]) = call.byteRange[1].End
        /\ call.byteRange = Some([Start |-> 0, End |-> 4]) =>
              sent[1].range = Some(<<"bytes=", <<0>>, "-", <<4>>>>)
        /\ (/\ lastResp.net = "ok"
            /\ lastResp.status \in {StatusOK, StatusPartialContent}
            /\ lastResp.body.kind \notin {"broken", "canceled"}) =>
              /\ result[1].val = Some(lastResp.body)
              /\ result[1].err = NoError
        /\ (/\ lastResp.net = "ok"
            /\ lastResp.status \notin {StatusOK, StatusPartialContent}) =>
              /\ result[1].val = None
              /\ result[1].err = handleError(lastResp)

\* A Download of bytes 0 to 4 was answered 206 and has returned the body.
C10_Witness ==
    /\ Returned /\ call.op = "Download"
    /\ call.byteRange = Some([Start |-> 0, End |-> 4])
    /\ Len(sent) = 1
    /\ sent[1].range = Some(<<"bytes=", <<0>>, "-", <<4>>>>)
    /\ lastResp.status = StatusPartialContent
    /\ result[1].err = NoError
    /\ result[1].val = Some(lastResp.body)

(***************************************************************************)
(* No retry.                                                               *)
(***************************************************************************)

\* The places in sent of the requests that satisfy Is.
Places(Is(_)) == {i \in 1..Len(sent) : Is(sent[i])}

\* C11: no request is retried.  A call of List, Head, Delete, Copy or
\* Download, and a single-shot Put, sends at most one request whatever its
\* outcome; a multipart Put sends the create request, each part number and
\* the complete request at most once, and one request per answer it got.
C11_NoRetry ==
    /\ call.op \in {"List", "Head", "Delete", "Copy", "Download"} => Len(sent) <= 1
    /\ Len(received) = Len(sent)
    /\ IsPut =>
          /\ Cardinality(Places(IsSinglePut)) <= 1
          /\ Cardinality(Places(IsCreate)) <= 1
          /\ Cardinality(Places(IsComplete)) <= 1
          /\ Places(IsSinglePut) # {} => Len(sent) = 1
          /\ \A i, j \in 1..Len(Uploads) :
                i # j => Uploads[i].xMpuPartNumber # Uploads[j].xMpuPartNumber

\* The second part of a multipart Put met a transport error: the call has
\* returned with that error and part 2 went out once.
C11_Witness ==
    /\ IsMultipart /\ Returned
    /\ lastResp = NetError
    /\ result[1].err = TransportError("Do")
    /\ Len(sent) = 3
    /\ Len(Uploads) = 2
    /\ Uploads[2].xMpuPartNumber = Some(<<2>>)

(***************************************************************************)
(* Cancellation.                                                           *)
(***************************************************************************)

\* The operation reads the body of its i-th answer: not that of a status of 500
\* or more, of Head's 404, of Delete's 200 or of an uploaded part's 200.
WasRead(i) ==
    /\ received[i].net = "ok"
    /\ received[i].status < 500
    /\ ~(call.op = "Head" /\ received[i].status = StatusNotFound)
    /\ ~(call.op = "Delete" /\ received[i].status = StatusOK)
    /\ ~(IsUpload(sent[i]) /\ received[i].status = StatusOK)

\* The context was cancelled while the i-th request was in flight: before its
\* response arrived, or while the operation read the response's body.
CancelledInFlight(i) ==
    \/ received[i].net = "canceled"
    \/ WasRead(i) /\ CutShort(received[i].body)

\* C12: when the context is cancelled while a request of the operation is in
\* flight, response body included, that request is the last one the operation
\* sends, and the operation returns the cancellation error.
C12_AsStated ==
    \A i \in 1..Len(received) :
        CancelledInFlight(i) =>
            /\ i = Len(sent)
            /\ Returned => result[1].err = ContextCanceled

(***************************************************************************)
(* Concurrent calls on one Client.                                         *)
(***************************************************************************)

\* The upload-part requests of call t, in the order they were issued.
UploadsOf(t) == SelectSeq(callers.calls[t].sent, IsUpload)

\* What the create response of call t decoded to.
CreatedBy(t) == DecodeCreate(callers.calls[t].received[1].body)

\* Call t took the multipart path.
IsMultipartCall(t) ==
    Len(callers.calls[t].sent) >= 1 /\ IsCreate(callers.calls[t].sent[1])

\* The requests of call t carry the ids of its own create response, its own
\* part numbers 1..N over its own chunks, and its complete request lists the
\* parts its own uploads were answered with.
OwnSession(t) ==
    LET c == callers.calls[t]
        ups == UploadsOf(t)
    IN  IsMultipartCall(t) =>
            /\ \A i \in 2..Len(c.sent) : IsUpload(c.sent[i]) \/ IsComplete(c.sent[i])
            /\ \A i \in 1..Len(ups) :
                  /\ ups[i].xMpuUploadId = Some(CreatedBy(t).UploadID)
                  /\ ups[i].xMpuKey = Some(CreatedBy(t).Key)
                  /\ Atoi(ups[i].xMpuPartNumber[1]) = i
                  /\ ups[i].body[2] = (i - 1) * MultipartThreshold
            /\ \A i \in 2..Len(c.sent) :
                  IsComplete(c.sent[i]) =>
                      LET done == c.sent[i].body[2]
                      IN  /\ i = Len(c.sent)
                          /\ done.uploadId = CreatedBy(t).UploadID
                          /\ done.key = CreatedBy(t).Key
                          /\ Len(done.parts) = Len(ups)
                          /\ \A k \in 1..Len(ups) :
                                done.parts[k] = [ETag |-> c.received[k + 1].etag,
                                                 PartNumber |-> k]

\* C13: under any interleaving of two Puts on one shared Client no step
\* changes the Client (or the environment it reads), and the calls do not
\* interfere: every upload-part and complete request of a call carries the
\* upload id and key of that call's own create response, each call's part
\* numbers are 1..N on their own, and each complete request lists only the
\* parts of its own call.
C13_NoInterference ==
    /\ [](\A t \in Callers : OwnSession(t))
    /\ [][client' = client /\ environ' = environ]_vars

\* Both calls are in their read loops at once, each with one part uploaded,
\* under different upload ids and with different ETags.
C13_Witness ==
    /\ \A t \in Callers :
          /\ callers.calls[t].pc = "mpu_upload"
          /\ Len(UploadsOf(t)) = 1
    /\ CreatedBy(1).UploadID # CreatedBy(2).UploadID
    /\ callers.calls[1].received[2].etag # callers.calls[2].received[2].etag

(***************************************************************************)
(* Empty arguments.                                                        *)
(***************************************************************************)

\* The call was made with an empty required pathname or URL.
EmptyArgument ==
    \/ call.op = "Put" /\ call.pathname = ""
    \/ call.op = "Copy" /\ (call.fromURL = "" \/ call.toPath = "")
    \/ call.op = "Head" /\ call.pathname = ""
    \/ call.op = "Download" /\ call.urlPath = ""

\* C14: an operation called with an empty required pathname or URL returns
\* the invalid-input error and sends no request.
C14_AsStated ==
    (Returned /\ EmptyArgument) =>
        /\ sent = <<>>
        /\ result[1].err.type = "Error"
        /\ result[1].err.code = "invalid_input"

(***************************************************************************)
(* Head.                                                                   *)
(***************************************************************************)

\* C15: Head returns the blob-not-found error for every response with status
\* 404 whatever its body, the decoded metadata for status 200 (the decoder's
\* error when the body does not decode), and for every other status the
\* error of the error mapper.
C15_HeadStatus ==
    (Returned /\ call.op = "Head" /\ lastResp.net = "ok") =>
        /\ lastResp.status = StatusNotFound =>
              /\ result[1].err = ErrBlobNotFound
              /\ result[1].val = None
        /\ (lastResp.status = StatusOK /\ lastResp.body.kind = "json") =>
              /\ result[1].err = NoError
              /\ result[1].val = Some([URL |-> lastResp.body.url])
        /\ (lastResp.status = StatusOK /\ lastResp.body.kind # "json") =>
              /\ result[1].err # NoError
              /\ result[1].err = DecodeError(lastResp.body)
              /\ result[1].val = None
        /\ lastResp.status \notin {StatusOK, StatusNotFound} =>
              /\ result[1].err = handleError(lastResp)
              /\ result[1].err # NoError
              /\ result[1].val = None

\* A Head was answered 404 with a store_not_found envelope and has returned
\* the blob-not-found error.
C15_Witness ==
    /\ Returned /\ call.op = "Head"
    /\ lastResp.status = StatusNotFound
    /\ HasEnvelope(lastResp, "store_not_found")
    /\ result[1].err = ErrBlobNotFound

(***************************************************************************)
(* GenerateClientToken.                                                    *)
(***************************************************************************)

\* C16: for a fixed secret, fixed options and a fixed expiry that is not zero,
\* GenerateClientToken returns the same string whenever it is called, of the
\* form hex(payload) "." hex(HMAC-SHA256(secret, payload)) with payload the JSON
\* of the options; it sends no request; and with the same secret two option
\* records that differ in operation, pathname or expiry get different
\* signatures.
C16_Deterministic ==
    /\ sent = <<>> /\ received = <<>> /\ tokenCalls = <<>>
    /\ \A i, j \in 1..Len(minted) :
          LET a == minted[i]
              b == minted[j]
          IN  (a.options.ExpiresAt # 0 /\ b.options.ExpiresAt # 0) =>
                  /\ Len(a.out) = 3
                  /\ a.out[1] = HexEncode(Marshal(a.options))
                  /\ a.out[2] = "."
                  /\ a.out[3] = HexEncode(HMACSHA256(a.token, a.out[1][2]))
                  /\ (a.token = b.token /\ a.options = b.options) => a.out = b.out
                  /\ (a.token = b.token /\ a.options # b.options) => a.out[3] # b.out[3]

\* The same secret and the same options with an expiry were signed at two
\* different times and gave the same token.
C16_Witness ==
    /\ Len(minted) = 2
    /\ minted[1].token = minted[2].token
    /\ minted[1].options = minted[2].options
    /\ minted[1].options.ExpiresAt = 9000
    /\ minted[1].now # minted[2].now
    /\ minted[1].out = minted[2].out

(***************************************************************************)
(* The order of the requests of a multipart Put.                           *)
(***************************************************************************)

\* The i-th request of the call was answered with status 200.
Answered200(i) ==
    /\ i <= Len(received)
    /\ received[i].net = "ok"
    /\ received[i].status = StatusOK

\* C17: in a multipart Put the requests go create, upload-part 1..N, complete,
\* one at a time: a request is issued only when every request before it has
\* its response, a 200; the upload-parts carry the numbers 1, 2, ... in the
\* order of issue; the complete request comes after the response to the last
\* part that was read and is the last request of the call; a step of the call
\* issues one request at most.
C17_Sequential ==
    /\ [](IsMultipart =>
            /\ Len(received) = Len(sent)
            /\ \A i \in 1..(Len(sent) - 1) : Answered200(i)
            /\ \A i \in 2..Len(sent) :
                  \/ /\ IsUpload(sent[i])
                     /\ Atoi(sent[i].xMpuPartNumber[1]) = i - 1
                  \/ /\ IsComplete(sent[i])
                     /\ i = Len(sent)
                     /\ Returned
                     /\ Len(Uploads) = NumChunks(Delivered))
    /\ [][sent' = <<>> \/ sent' = sent
            \/ (Len(sent') = Len(sent) + 1 /\ SubSeq(sent', 1, Len(sent)) = sent)]_vars

\* The loop of a multipart Put is left with two parts sent and answered; the
\* complete request is not issued yet.
C17_Witness ==
    /\ IsMultipart /\ pc = "mpu_complete"
    /\ Len(sent) = 3 /\ Len(received) = 3
    /\ IsUpload(sent[2]) /\ IsUpload(sent[3])
    /\ Answered200(3)

(***************************************************************************)
(* The input stream of a multipart Put.                                    *)
(***************************************************************************)

\* The body of the call is a reader that fails before it is read to its end.
ReaderFails == call.body.failAt # None

\* C18: in a multipart Put whose input stream fails with an error other than
\* the clean end of the stream, the complete request is never sent and Put
\* returns an error.
C18_AsStated ==
    (IsMultipart /\ ReaderFails) =>
        /\ Places(IsComplete) = {}
        /\ Returned => result[1].err # NoError

\* The read loop of the call is left for the complete request.
LoopLeft == pc = "mpu_complete" \/ Places(IsComplete) # {}

\* The part bodies lie end to end over the input, from its first unread byte
\* to its last.
Contiguous ==
    /\ Uploads[1].body[2] = call.body.pos
    /\ \A i \in 1..(Len(Uploads) - 1) :
          Uploads[i].body[2] + Uploads[i].body[3] = Uploads[i + 1].body[2]
    /\ Uploads[Len(Uploads)].body[2] + Uploads[Len(Uploads)].body[3] = call.body.total

\* C19: for an input of L > 0 bytes that is read without error, a multipart
\* Put that has left its read loop has sent ceil(L / MultipartThreshold)
\* upload-part requests: none is empty, every part but the last has
\* MultipartThreshold bytes, the last has between 1 and MultipartThreshold,
\* and the parts in part-number order are the input from end to end; when L
\* is a multiple of MultipartThreshold no part follows the last full one.
C19_Chunks ==
    (IsMultipart /\ ~ReaderFails /\ InputLen > 0 /\ LoopLeft) =>
        /\ Len(Uploads) * MultipartThreshold >= InputLen
        /\ (Len(Uploads) - 1) * MultipartThreshold < InputLen
        /\ \A i \in 1..Len(Uploads) :
              /\ Uploads[i].body[1] = "bytes"
              /\ Uploads[i].body[3] >= 1
              /\ Uploads[i].body[3] <= MultipartThreshold
              /\ i < Len(Uploads) => Uploads[i].body[3] = MultipartThreshold
              /\ Atoi(Uploads[i].xMpuPartNumber[1]) = i
        /\ Contiguous
        /\ InputLen % MultipartThreshold = 0 =>
              Uploads[Len(Uploads)].body[3] = MultipartThreshold

\* An input of twice MultipartThreshold bytes is read to its end: two parts
\* of MultipartThreshold bytes are sent, and the loop is left.
C19_Witness ==
    /\ IsMultipart /\ pc = "mpu_complete"
    /\ ~ReaderFails
    /\ InputLen = 2 * MultipartThreshold
    /\ Len(Uploads) = 2
    /\ Uploads[2].body = <<"bytes", MultipartThreshold, MultipartThreshold>>

(***************************************************************************)
(* The complete request.                                                   *)
(***************************************************************************)

\* C20: the body of the complete request carries the upload id and the key of
\* the create response, and one {etag, partNumber} pair per upload-part
\* request that was answered 200, in ascending part-number order: pair k has
\* the number k, which the k-th upload-part request carried, and the ETag
\* header of the response to that request.
C20_CompleteBody ==
    \A i \in Places(IsComplete) :
        LET body == sent[i].body
            ok == {k \in 1..Len(Uploads) : Answered200(k + 1)}
        IN  /\ body[1] = "json"
            /\ received[1].body.kind = "json" =>
                  /\ body[2].uploadId = received[1].body.uploadId
                  /\ body[2].key = received[1].body.key
            /\ body[2].uploadId = DecodeCreate(received[1].body).UploadID
            /\ body[2].key = DecodeCreate(received[1].body).Key
            /\ DOMAIN body[2].parts = ok
            /\ \A k \in ok :
                  /\ body[2].parts[k].PartNumber = k
                  /\ Atoi(Uploads[k].xMpuPartNumber[1]) = k
                  /\ body[2].parts[k].ETag = received[k + 1].etag
                  /\ body[2].parts[k].ETag \in ETags

\* A Put of two parts, answered with etag-b and then etag-a, has sent its
\* complete request with the ids of the create response.
C20_Witness ==
    /\ IsMultipart /\ Returned
    /\ Len(sent) = 4 /\ IsComplete(sent[4])
    /\ sent[4].body[2] =
          [uploadId |-> "upload-1", key |-> "key-1",
           parts |-> <<[ETag |-> "etag-b", PartNumber |-> 1],
                       [ETag |-> "etag-a", PartNumber |-> 2]>>]

(***************************************************************************)
(* Errors that are raised inside an operation.                             *)
(***************************************************************************)

\* The i-th answer is a 200 whose body the operation decodes as JSON: every
\* 200 but Delete's, Download's and an uploaded part's.
Decoded200(i) ==
    /\ Answered200(i)
    /\ call.op \in {"List", "Put", "Head", "Copy"}
    /\ ~IsUpload(sent[i])

\* C21: no error raised inside an operation is swallowed.  When the body of a
\* 200 response does not decode into the shape the operation expects, the
\* operation returns an error and not a result, and a multipart Put whose
\* create response does not decode sends no upload-part request.
C21_AsStated ==
    /\ (Returned /\ \E i \in 1..Len(received) :
                        Decoded200(i) /\ DecodeError(received[i].body) # NoError) =>
          /\ result[1].err # NoError
          /\ result[1].val = None
    /\ (IsMultipart /\ Answered200(1) /\ DecodeError(received[1].body) # NoError) =>
          Len(Uploads) = 0

(***************************************************************************)
(* The put-option headers.                                                 *)
(***************************************************************************)

\* The put-option headers of a request.
PutHeaders(r) ==
    [xAddRandomSuffix |-> r.xAddRandomSuffix, xContentType |-> r.xContentType,
     xCacheControlMaxAge |-> r.xCacheControlMaxAge, xAccess |-> r.xAccess]

\* The headers the options of the call stand for.
ExpectedPutHeaders ==
    [xAddRandomSuffix |-> IF call.options.AddRandomSuffix THEN None ELSE Some("0"),
     xContentType |-> IF call.options.ContentType = "" THEN None
                      ELSE Some(call.options.ContentType),
     xCacheControlMaxAge |-> IF call.options.CacheControlMaxAge = 0 THEN None
                             ELSE Some(Itoa(call.options.CacheControlMaxAge)),
     xAccess |-> IF call.options.Access = "" THEN Some("public")
                 ELSE Some(call.options.Access)]

\* C22: for every PutCommandOptions value the put-option headers of the
\* multipart create request, of the single-shot PUT and of the Copy request
\* are the same function of the options: X-Add-Random-Suffix is "0" exactly
\* when the random suffix is off, X-Content-Type and X-Cache-Control-Max-Age
\* are there exactly when set, and X-Access is always there, "public" when
\* no access is given.
C22_PutHeaders ==
    \A i \in 1..Len(sent) :
        (call.op \in {"Put", "Copy"} /\ (IsCreate(sent[i]) \/ IsSinglePut(sent[i]))) =>
            /\ PutHeaders(sent[i]) = ExpectedPutHeaders
            /\ sent[i].xAddRandomSuffix = Some("0") <=> ~call.options.AddRandomSuffix
            /\ sent[i].xAccess # None
            /\ call.options.Access = "" => sent[i].xAccess = Some("public")
            /\ sent[i].xCacheControlMaxAge # None =>
                  Atoi(sent[i].xCacheControlMaxAge[1]) = call.options.CacheControlMaxAge

\* A multipart Put with the suffix off, a content type, a max age and no
\* access has sent its create request.
C22_Witness ==
    /\ IsMultipart
    /\ call.options = [AddRandomSuffix |-> FALSE, CacheControlMaxAge |-> 60,
                       ContentType |-> "text/plain", Access |-> ""]
    /\ PutHeaders(sent[1]) =
          [xAddRandomSuffix |-> Some("0"), xContentType |-> Some("text/plain"),
           xCacheControlMaxAge |-> Some(<<6, 0>>), xAccess |-> Some("public")]

====
